---- MODULE Spec2Model ----
(***************************************************************************)
(* The notification pipeline of cozy-banks                                 *)
(* (src/en/cozy-banks/src/ducks/notifications/services.js): rule           *)
(* resolution, enablement, account reconciliation and the per-class        *)
(* dispatch loop of sendNotifications.                                     *)
(*                                                                         *)
(* JavaScript values are modelled as tagged records; a primitive is named  *)
(* by its source literal ("true", "1", "'yes'", ...).  A throw of a        *)
(* synchronous function is the value TypeError.                            *)
(*                                                                         *)
(* The specifications share the state:                                     *)
(*   Spec          one sendNotifications run, over many configurations;    *)
(*   SpecAccounts  the same run, over many batches and store contents;     *)
(*   SpecOptions   the same run, over rule records of several fields;      *)
(*   SpecLive      the same run, every pending call settling in the end;   *)
(*   SpecRules     direct calls of getClassRules, getValidClassRules and   *)
(*                 getEnabledNotificationClasses, over every entry shape;  *)
(*   SpecCalls     such calls, repeated, around a run;                     *)
(*   SpecTwoRuns   two runs whose awaits interleave.                       *)
(* The sibling services have theirs:                                       *)
(*   SpecTime      updateTimeTracking and canCategorizeNextChunk;          *)
(*   SpecChunks    fetchChunksToCategorize;                                *)
(*   SpecSettings  the settings functions, their awaits interleaving;      *)
(*   SpecEnabled   isNotificationEnabled beside                            *)
(*                 getEnabledNotificationClasses;                          *)
(*   SpecTracker   the tracking functions of ducks/tracking/browser.jsx.   *)
(* The collaborators (BankAccount.getAll, client.query, new Klass,         *)
(* sendNotification) are the environment: each call ends in one of the     *)
(* ways a promise or a constructor can end.                                *)
(***************************************************************************)
EXTENDS Naturals, Integers, Sequences, FiniteSets, TLC

(***************************************************************************)
(* Bounds of the model                                                     *)
(***************************************************************************)
\* longest rule array of a configuration entry
MaxRules == 2
\* most classes that have an entry in a configuration of a run
MaxConfigured == 2
\* longest transaction batch
MaxTransactions == 3
\* longest time, in seconds, a chunk takes or the clock reaches
MaxTime == 3
\* most calls of updateTimeTracking and canCategorizeNextChunk in a process
MaxTimeCalls == 3
\* most full chunks of transactions to categorize
MaxChunks == 2
\* most different dates among the transactions to categorize
MaxDates == 3
\* most calls of the settings functions that overlap
MaxOps == 2
\* most calls of the tracking functions in a page
MaxTrackerCalls == 3

(***************************************************************************)
(* JavaScript values                                                       *)
(***************************************************************************)
Undefined == [kind |-> "undefined"]
Null == [kind |-> "null"]
Prim(lit) == [kind |-> "primitive", lit |-> lit]
Obj(fields) == [kind |-> "object", fields |-> fields]
Arr(items) == [kind |-> "array", items |-> items]
TypeError == [kind |-> "throw", name |-> "TypeError"]

Throws(v) == v.kind = "throw"

\* the primitives that convert to false: false, 0, '' and NaN
FalsyLits == {"false", "0", "''", "NaN"}

\* ToBoolean, as `||`, `&&`, `?:` and Array.prototype.some/filter apply it
ToBoolean(v) ==
  CASE v.kind \in {"undefined", "null"} -> FALSE
    [] v.kind = "primitive" -> v.lit \notin FalsyLits
    [] OTHER -> TRUE

\* typeof v === 'object' (true of null, of a mapping and of an array)
TypeofIsObject(v) == v.kind \in {"null", "object", "array"}

IsArray(v) == v.kind = "array"

\* v[f]: a property read; it throws on null and undefined
Get(v, f) ==
  IF v.kind \in {"undefined", "null"} THEN TypeError
  ELSE IF v.kind = "object" /\ f \in DOMAIN v.fields THEN v.fields[f]
  ELSE Undefined

(***************************************************************************)
(* The registry and the class descriptors.  The classes themselves         *)
(* (./BalanceLower, ...) lie outside services.js; the table below gives    *)
(* each combination of supportsMultipleRules and isValidRule to some class *)
(* of the registry.                                                        *)
(***************************************************************************)
notificationClasses ==
  << "BalanceLower", "TransactionGreater", "HealthBillLinked",
     "LateHealthReimbursement", "DelayedDebit" >>

Classes == {notificationClasses[i] : i \in 1..Len(notificationClasses)}

\* Klass.settingKey
settingKey(Klass) ==
  CASE Klass = "BalanceLower" -> "balanceLower"
    [] Klass = "TransactionGreater" -> "transactionGreater"
    [] Klass = "HealthBillLinked" -> "healthBillLinked"
    [] Klass = "LateHealthReimbursement" -> "lateHealthReimbursement"
    [] Klass = "DelayedDebit" -> "delayedDebit"

SettingKeys == {settingKey(K) : K \in Classes}

\* Klass.supportsMultipleRules
supportsMultipleRules(Klass) == Klass \in {"BalanceLower", "TransactionGreater"}

\* whether the class exposes Klass.isValidRule at all
hasIsValidRule(Klass) == Klass \in {"BalanceLower", "LateHealthReimbursement"}

\* the literals of finite numbers
FiniteNumberLits == {"0", "1", "100"}

\* Klass.isValidRule(rule): the rule's `value` is a finite number
isValidRule(Klass, rule) ==
  LET v == Get(rule, "value") IN
  IF Throws(v) THEN TypeError
  ELSE IF v.kind = "primitive" /\ v.lit \in FiniteNumberLits THEN Prim("true")
  ELSE Prim("false")

(***************************************************************************)
(* Rule resolution and enablement                                          *)
(***************************************************************************)
\* config.notifications[key]
ConfigEntry(config, key) ==
  IF key \in DOMAIN config.notifications THEN config.notifications[key]
  ELSE Undefined

\* getClassRules without the wrapping of a single mapping
getClassRulesNoWrap(Klass, config) ==
  LET classRules == ConfigEntry(config, settingKey(Klass)) IN
  IF ToBoolean(classRules) THEN classRules ELSE Arr(<<>>)

\* getClassRules wrapping whatever is not an array, an absent entry included
getClassRulesWrapAll(Klass, config) ==
  LET classRules == ConfigEntry(config, settingKey(Klass)) IN
  IF ~IsArray(classRules) THEN Arr(<<classRules>>) ELSE classRules

getClassRules(Klass, config) ==
  LET classRules == ConfigEntry(config, settingKey(Klass)) IN
  IF TypeofIsObject(classRules) /\ ~IsArray(classRules)
  THEN Arr(<<classRules>>)
  ELSE IF ToBoolean(classRules) THEN classRules ELSE Arr(<<>>)

\* items.filter(rule => Klass.isValidRule(rule)), left to right
RECURSIVE FilterValidRules(_, _)
FilterValidRules(Klass, items) ==
  IF items = <<>> THEN Arr(<<>>)
  ELSE LET keep == isValidRule(Klass, Head(items)) IN
       IF Throws(keep) THEN TypeError
       ELSE LET rest == FilterValidRules(Klass, Tail(items)) IN
            IF Throws(rest) THEN TypeError
            ELSE IF ToBoolean(keep) THEN Arr(<<Head(items)>> \o rest.items)
            ELSE rest

\* getValidClassRules without the filter
getValidClassRulesUnfiltered(Klass, config) == getClassRules(Klass, config)

getValidClassRules(Klass, config) ==
  LET rules == getClassRules(Klass, config) IN
  IF hasIsValidRule(Klass)
  THEN IF IsArray(rules) THEN FilterValidRules(Klass, rules.items)
       ELSE TypeError   \* rules.filter is not a function
  ELSE rules

\* items.some(rule => rule.enabled === true)
RECURSIVE SomeRuleEnabledStrict(_)
SomeRuleEnabledStrict(items) ==
  IF items = <<>> THEN Prim("false")
  ELSE LET e == Get(Head(items), "enabled") IN
       IF Throws(e) THEN TypeError
       ELSE IF e = Prim("true") THEN Prim("true")
       ELSE SomeRuleEnabledStrict(Tail(items))

\* items.some(rule => rule.enabled): stops at the first truthy result
RECURSIVE SomeRuleEnabled(_)
SomeRuleEnabled(items) ==
  IF items = <<>> THEN Prim("false")
  ELSE LET e == Get(Head(items), "enabled") IN
       IF Throws(e) THEN TypeError
       ELSE IF ToBoolean(e) THEN Prim("true")
       ELSE SomeRuleEnabled(Tail(items))

isNotificationKlassEnabledFromConfig(config, Klass) ==
  LET rules == getValidClassRules(Klass, config) IN
  IF Throws(rules) THEN TypeError
  ELSE IF ~ToBoolean(rules) THEN rules
  ELSE IF IsArray(rules) THEN SomeRuleEnabled(rules.items)
  ELSE TypeError   \* rules.some is not a function

\* classes.filter(isNotificationKlassEnabledFromConfig(config)), left to right
RECURSIVE FilterEnabledClasses(_, _)
FilterEnabledClasses(config, classes) ==
  IF classes = <<>> THEN Arr(<<>>)
  ELSE LET keep == isNotificationKlassEnabledFromConfig(config, Head(classes)) IN
       IF Throws(keep) THEN TypeError
       ELSE LET rest == FilterEnabledClasses(config, Tail(classes)) IN
            IF Throws(rest) THEN TypeError
            ELSE IF ToBoolean(keep) THEN Arr(<<Head(classes)>> \o rest.items)
            ELSE rest

\* getEnabledNotificationClasses filtering the registry from its end
getEnabledNotificationClassesBackwards(config) ==
  FilterEnabledClasses(config,
    [i \in 1..Len(notificationClasses) |->
       notificationClasses[Len(notificationClasses) + 1 - i]])

getEnabledNotificationClasses(config) ==
  FilterEnabledClasses(config, notificationClasses)

(***************************************************************************)
(* Account reconciliation                                                  *)
(***************************************************************************)
\* membership in a Set, kept as a duplicate-free sequence in insertion order
Has(set, x) == \E i \in 1..Len(set) : set[i] = x

\* Array.from(seq) in place of new Set(seq): duplicates are kept
NewSetKeepAll(seq) == seq

\* new Set(seq): the distinct elements, in the order of their first insertion
RECURSIVE NewSet(_)
NewSet(seq) ==
  IF seq = <<>> THEN <<>>
  ELSE LET front == NewSet(SubSeq(seq, 1, Len(seq) - 1))
           last == seq[Len(seq)]
       IN IF Has(front, last) THEN front ELSE Append(front, last)

\* seq.map(x => x[f])
MapField(seq, f) == [i \in 1..Len(seq) |-> seq[i][f]]

\* setDifference with the filter inverted: the ids that were found
setDifferenceInverted(a, b) == SelectSeq(a, LAMBDA x : Has(b, x))

setDifference(a, b) == SelectSeq(a, LAMBDA x : ~Has(b, x))

\* BankAccount.getAll(ids): the documents of the store that have one of the ids
BankAccountGetAll(ids, stored) ==
  LET found == SelectSeq(ids, LAMBDA id : id \in stored) IN
  [i \in 1..Len(found) |-> [_id |-> found[i]]]

\* the warning of fetchTransactionAccounts, or no line at all
MissingAccountsLog(accountsIds, accounts) ==
  LET existingAccountIds == NewSet(MapField(accounts, "_id"))
      absentAccountIds == setDifference(accountsIds, existingAccountIds)
      delta == Len(accountsIds) - Len(existingAccountIds)
  IN IF delta # 0
     THEN << [level |-> "warn", what |-> "account(s) do not exist",
              count |-> delta, ids |-> absentAccountIds] >>
     ELSE <<>>

(***************************************************************************)
(* The option bundle                                                       *)
(***************************************************************************)
\* process.env.COZY_LOCALE || 'en'
lang == "en"

isKlassSupportingSeveralRules(Klass) == supportsMultipleRules(Klass)

\* Object.assign(target, source): a null or undefined source is skipped
ObjectAssign(target, source) ==
  IF source.kind = "object"
  THEN [f \in DOMAIN target \cup DOMAIN source.fields |->
          IF f \in DOMAIN source.fields THEN source.fields[f] ELSE target[f]]
  ELSE target

\* klassRules[klassRules.length - 1]
LastRule(klassRules) ==
  IF IsArray(klassRules) /\ Len(klassRules.items) >= 1
  THEN klassRules.items[Len(klassRules.items)] ELSE Undefined

\* klassRules[0]
FirstRule(klassRules) ==
  IF IsArray(klassRules) /\ Len(klassRules.items) >= 1
  THEN klassRules.items[1] ELSE Undefined

\* the bundle sendNotificationForClass hands to new Klass(...)
klassOptions(Klass, cfg, client, data) ==
  LET klassRules == getClassRules(Klass, cfg)
      base == [client |-> client, t |-> "t",
               locales |-> [en |-> "locales/en"], lang |-> lang, data |-> data]
  IN IF isKlassSupportingSeveralRules(Klass)
     THEN [f \in DOMAIN base \cup {"rules"} |->
             IF f = "rules" THEN klassRules ELSE base[f]]
     ELSE ObjectAssign(base, FirstRule(klassRules))

(***************************************************************************)
(* State of one sendNotifications run                                      *)
(***************************************************************************)
VARIABLES
  config,        \* the configuration handed to sendNotifications
  transactions,  \* the batch handed to sendNotifications
  store,         \* the store: the ids of its account documents, its groups
  pc,            \* where the run stands: idle, an await, resolved or rejected
  error,         \* the reason of the rejection
  enabledNotificationClasses,
  accountsIds,   \* the ids fetchTransactionAccounts asked for
  accounts,      \* what fetchTransactionAccounts resolved with
  groups,        \* what fetchGroups resolved with
  idx,           \* position of the for loop in enabledNotificationClasses
  inflight,      \* classes whose sendNotification promise is pending
  calls,         \* the calls made to the collaborators, in order
  outcomes,      \* how the collaborators' calls ended, in order
  log,           \* the warn lines logged
  pure,          \* the last direct call of a rule function, with its result
  other          \* the run the event loop has suspended, when two overlap

(***************************************************************************)
(* State of the sibling services: the time budget, the chunks and the      *)
(* settings of ducks/categorization/services.js, and the tracker of        *)
(* ducks/tracking/browser.jsx                                              *)
(***************************************************************************)
VARIABLES
  highestTime,         \* the longest time a chunk took so far
  MAX_EXECUTION_TIME,  \* parseInt(process.env.COZY_TIME_LIMIT, 10)
  now,                 \* whole seconds between timeStart and new Date()
  timeCalls,           \* the calls of the two time functions, in order
  toCategorize,        \* the stored transactions marked toCategorize
  chunks,              \* the promise of fetchChunksToCategorize
  settingsCol,         \* the settings documents of the store: none or one
  ops,                 \* the calls of the settings functions and their locals
  settingsLog,         \* the error lines logged by the settings functions
  cache,               \* the cache of memoize: a tracker for each key seen
  pushed,              \* what was pushed to the Matomo trackers, in order
  trackerCalls         \* the calls of the tracking functions, in order

timeVars == << highestTime, MAX_EXECUTION_TIME, now, timeCalls >>

chunkVars == << toCategorize, chunks >>

settingsVars == << settingsCol, ops, settingsLog >>

trackerVars == << cache, pushed, trackerCalls >>

\* what a step of the notification pipeline leaves alone
elsewhere == << timeVars, chunkVars, settingsVars, trackerVars >>

notificationVars ==
  << config, transactions, store, pc, error, enabledNotificationClasses,
     accountsIds, accounts, groups, idx, inflight, calls, outcomes, log,
     pure, other >>

vars == << notificationVars, elsewhere >>

\* what a step of the time budget leaves alone
exceptTime == << notificationVars, chunkVars, settingsVars, trackerVars >>

\* what a step of fetchChunksToCategorize leaves alone
exceptChunks == << notificationVars, timeVars, settingsVars, trackerVars >>

\* what a step of the settings functions leaves alone
exceptSettings == << notificationVars, timeVars, chunkVars, trackerVars >>

\* what a step of the tracking functions leaves alone
exceptTracker == << notificationVars, timeVars, chunkVars, settingsVars >>

(***************************************************************************)
(* Inputs                                                                  *)
(***************************************************************************)
SeqsUpTo(S, n) == UNION {[1..k -> S] : k \in 0..n}

Rule(e, v) == Obj([enabled |-> Prim(e), value |-> Prim(v)])

\* configurations with at most n configured classes, entries drawn from E
Configs(E, n) ==
  {[notifications |-> f] :
     f \in UNION {[D -> E] : D \in {D \in SUBSET SettingKeys : Cardinality(D) <= n}}}

RunRules == {Rule("true", "100"), Rule("false", "100"), Rule("true", "NaN")}

\* the entries of a run: null, one mapping, an empty array, or an array of
\* two different rules
RunEntries ==
  {Null, Arr(<<>>)} \cup RunRules
    \cup {Arr(<<p[1], p[2]>>) : p \in {p \in RunRules \X RunRules : p[1] # p[2]}}

AccountIds == {"A1", "A2", "A3"}

Batches(n) ==
  {[i \in 1..Len(s) |-> [account |-> s[i]]] : s \in SeqsUpTo(AccountIds, n)}

GroupSets == {<<>>, <<[_id |-> "G1"]>>}

\* no second run
NoOther == [turn |-> 0]

\* what parseInt returns: a whole number, or NaN when there is nothing to parse
Number(n) == [kind |-> "number", value |-> n]
NaN == [kind |-> "NaN"]

\* the time budget before any chunk: no limit read from the environment
\* (parseInt of undefined is NaN), nothing recorded
InitTimeUnused ==
  /\ highestTime = 0
  /\ MAX_EXECUTION_TIME = NaN
  /\ now = 0
  /\ timeCalls = <<>>

\* no transaction to categorize, fetchChunksToCategorize not called
InitChunksUnused ==
  /\ toCategorize = <<>>
  /\ chunks = [state |-> "none"]

\* no settings document, no call of a settings function
InitSettingsUnused ==
  /\ settingsCol = <<>>
  /\ ops = <<>>
  /\ settingsLog = <<>>

\* getMatomoTracker never called: nothing memoized, nothing pushed
InitTrackerUnused ==
  /\ cache = {}
  /\ pushed = <<>>
  /\ trackerCalls = <<>>

\* the sibling services before any call
InitElsewhere ==
  /\ InitTimeUnused
  /\ InitChunksUnused
  /\ InitSettingsUnused
  /\ InitTrackerUnused

\* the locals of a run before its call
InitLocals ==
  /\ InitElsewhere
  /\ pc = "idle"
  /\ error = "none"
  /\ enabledNotificationClasses = <<>>
  /\ accountsIds = <<>>
  /\ accounts = <<>>
  /\ groups = <<>>
  /\ idx = 0
  /\ inflight = {}
  /\ calls = <<>>
  /\ outcomes = <<>>
  /\ log = <<>>

InitRun ==
  /\ other = NoOther
  /\ InitLocals

\* runs over many configurations, on a batch that names an account twice
Init ==
  /\ config \in Configs(RunEntries, MaxConfigured)
  /\ transactions = <<[account |-> "A1"], [account |-> "A2"], [account |-> "A1"]>>
  /\ store = [accounts |-> {"A1"}, groups |-> <<[_id |-> "G1"]>>]
  /\ InitRun
  /\ pure = [op |-> "none"]

\* runs over many batches and stores, on configurations of plain enabled rules
InitAccounts ==
  /\ config \in Configs({Rule("true", "100")}, MaxConfigured)
  /\ transactions \in Batches(MaxTransactions)
  /\ store \in [accounts : SUBSET AccountIds, groups : GroupSets]
  /\ InitRun
  /\ pure = [op |-> "none"]

(***************************************************************************)
(* sendNotifications                                                       *)
(***************************************************************************)
\* CozyClient.fromEnv(process.env)
client == "client"

\* sendNotificationForClass up to its await: the bundle and new Klass(bundle),
\* either of which may throw outside the try, then the call of sendNotification.
\* `pending` are the sends still pending, `ended` the outcomes so far.
sendNotificationForClass(Klass, data, pending, ended) ==
  LET options == klassOptions(Klass, config, client, data)
      made == [api |-> "new Klass", klass |-> Klass, options |-> options]
      sent == [api |-> "sendNotification", klass |-> Klass, options |-> options]
  IN \/ /\ calls' = calls \o <<made, sent>>
        /\ outcomes' = Append(ended, [api |-> "new Klass", klass |-> Klass,
                                      outcome |-> "returned"])
        /\ inflight' = pending \cup {Klass}
        /\ pc' = "awaitSend"
        /\ error' = error
     \/ /\ calls' = Append(calls, made)
        /\ outcomes' = Append(ended, [api |-> "new Klass", klass |-> Klass,
                                      outcome |-> "threw"])
        /\ inflight' = pending
        /\ pc' = "rejected"
        /\ error' = "ConstructorError"

\* the loop stopping one class short
LoopFromOffByOne(i, data, pending, ended) ==
  /\ idx' = i
  /\ IF i >= Len(enabledNotificationClasses)
     THEN /\ pc' = "resolved"
          /\ inflight' = pending
          /\ outcomes' = ended
          /\ UNCHANGED <<calls, error>>
     ELSE sendNotificationForClass(enabledNotificationClasses[i], data,
                                   pending, ended)

\* the loop without its await: every remaining class is built and sent at once
LoopFromFanOut(i, data, pending, ended) ==
  /\ idx' = i
  /\ IF i > Len(enabledNotificationClasses)
     THEN /\ pc' = "resolved"
          /\ inflight' = pending
          /\ outcomes' = ended
          /\ UNCHANGED <<calls, error>>
     ELSE LET n == Len(enabledNotificationClasses) - i + 1
              K(j) == enabledNotificationClasses[i + ((j + 1) \div 2) - 1]
          IN /\ calls' = calls \o
                  [j \in 1..(2 * n) |->
                     [api |-> IF j % 2 = 1 THEN "new Klass" ELSE "sendNotification",
                      klass |-> K(j),
                      options |-> klassOptions(K(j), config, client, data)]]
             /\ outcomes' = ended \o
                  [j \in 1..n |-> [api |-> "new Klass",
                                   klass |-> enabledNotificationClasses[i + j - 1],
                                   outcome |-> "returned"]]
             /\ inflight' = pending \cup
                  {enabledNotificationClasses[k] : k \in i..Len(enabledNotificationClasses)}
             /\ pc' = "awaitSend"
             /\ error' = error

\* the for loop of sendNotifications from position i up to its next await
LoopFrom(i, data, pending, ended) ==
  /\ idx' = i
  /\ IF i > Len(enabledNotificationClasses)
     THEN /\ pc' = "resolved"
          /\ inflight' = pending
          /\ outcomes' = ended
          /\ UNCHANGED <<calls, error>>
     ELSE sendNotificationForClass(enabledNotificationClasses[i], data,
                                   pending, ended)

\* the call itself, up to the await of BankAccount.getAll
SendNotifications ==
  /\ pc = "idle"
  /\ LET enabled == getEnabledNotificationClasses(config) IN
     IF Throws(enabled)
     THEN /\ pc' = "rejected"
          /\ error' = "TypeError"
          /\ UNCHANGED <<enabledNotificationClasses, accountsIds, calls>>
     ELSE /\ enabledNotificationClasses' = enabled.items
          /\ accountsIds' = NewSet(MapField(transactions, "account"))
          /\ calls' = Append(calls, [api |-> "BankAccount.getAll",
                                     ids |-> accountsIds'])
          /\ pc' = "awaitAccounts"
          /\ error' = error
  /\ UNCHANGED <<config, transactions, store, accounts, groups, idx, inflight,
                 outcomes, log, pure, other, elsewhere>>

\* fetchTransactionAccounts failing the run when an account is missing
AccountsResolveStrict ==
  /\ pc = "awaitAccounts"
  /\ LET response == BankAccountGetAll(accountsIds, store.accounts) IN
     /\ outcomes' = Append(outcomes, [api |-> "BankAccount.getAll",
                                      outcome |-> "resolved", value |-> response])
     /\ log' = log \o MissingAccountsLog(accountsIds, response)
     /\ IF MissingAccountsLog(accountsIds, response) # <<>>
        THEN /\ pc' = "rejected"
             /\ error' = "AccountsError"
             /\ UNCHANGED <<accounts, calls>>
        ELSE /\ accounts' = response
             /\ calls' = Append(calls, [api |-> "client.query"])
             /\ pc' = "awaitGroups"
             /\ error' = error
  /\ UNCHANGED <<config, transactions, store, enabledNotificationClasses,
                 accountsIds, groups, idx, inflight, pure, other, elsewhere>>

\* BankAccount.getAll resolves: the rest of fetchTransactionAccounts, then
\* fetchGroups up to the await of client.query
AccountsResolve ==
  /\ pc = "awaitAccounts"
  /\ LET response == BankAccountGetAll(accountsIds, store.accounts) IN
     /\ outcomes' = Append(outcomes, [api |-> "BankAccount.getAll",
                                      outcome |-> "resolved", value |-> response])
     /\ log' = log \o MissingAccountsLog(accountsIds, response)
     /\ accounts' = response
  /\ calls' = Append(calls, [api |-> "client.query"])
  /\ pc' = "awaitGroups"
  /\ UNCHANGED <<config, transactions, store, error, enabledNotificationClasses,
                 accountsIds, groups, idx, inflight, pure, other, elsewhere>>

\* the rejection of BankAccount.getAll caught, the run going on without accounts
AccountsRejectCaught ==
  /\ pc = "awaitAccounts"
  /\ outcomes' = Append(outcomes, [api |-> "BankAccount.getAll",
                                   outcome |-> "rejected", err |-> "AccountsError"])
  /\ accounts' = <<>>
  /\ calls' = Append(calls, [api |-> "client.query"])
  /\ pc' = "awaitGroups"
  /\ UNCHANGED <<config, transactions, store, error, enabledNotificationClasses,
                 accountsIds, groups, idx, inflight, log, pure, other, elsewhere>>

\* BankAccount.getAll rejects: nothing catches it
AccountsReject ==
  /\ pc = "awaitAccounts"
  /\ outcomes' = Append(outcomes, [api |-> "BankAccount.getAll",
                                   outcome |-> "rejected", err |-> "AccountsError"])
  /\ pc' = "rejected"
  /\ error' = "AccountsError"
  /\ UNCHANGED <<config, transactions, store, enabledNotificationClasses,
                 accountsIds, accounts, groups, idx, inflight, calls, log, pure, other, elsewhere>>

\* client.query(client.all(GROUP_DOCTYPE)): every group of the store
ClientQueryAllGroups(stored) == stored

\* client.query resolves: the loop starts
GroupsResolve ==
  /\ pc = "awaitGroups"
  /\ LET response == ClientQueryAllGroups(store.groups) IN
     /\ groups' = response
     /\ LoopFrom(1, [accounts |-> accounts, groups |-> response,
                     transactions |-> transactions], inflight,
                 Append(outcomes, [api |-> "client.query",
                                   outcome |-> "resolved", value |-> response]))
  /\ UNCHANGED <<config, transactions, store, enabledNotificationClasses,
                 accountsIds, accounts, log, pure, other, elsewhere>>

\* client.query rejects: nothing catches it
GroupsReject ==
  /\ pc = "awaitGroups"
  /\ outcomes' = Append(outcomes, [api |-> "client.query",
                                   outcome |-> "rejected", err |-> "GroupsError"])
  /\ pc' = "rejected"
  /\ error' = "GroupsError"
  /\ UNCHANGED <<config, transactions, store, enabledNotificationClasses,
                 accountsIds, accounts, groups, idx, inflight, calls, log, pure, other, elsewhere>>

RunData == [accounts |-> accounts, groups |-> groups, transactions |-> transactions]

\* a pending sendNotification resolves: the loop goes on
SendResolve ==
  /\ pc = "awaitSend"
  /\ \E Klass \in inflight :
       LoopFrom(idx + 1, RunData, inflight \ {Klass},
                Append(outcomes, [api |-> "sendNotification", klass |-> Klass,
                                  outcome |-> "resolved"]))
  /\ UNCHANGED <<config, transactions, store, enabledNotificationClasses,
                 accountsIds, accounts, groups, log, pure, other, elsewhere>>

\* a pending sendNotification rejects: the catch logs the serialized error
\* and the loop goes on
SendReject ==
  /\ pc = "awaitSend"
  /\ \E Klass \in inflight :
       /\ log' = Append(log, [level |-> "warn", what |-> "JSON.stringify(err)",
                              klass |-> Klass])
       /\ LoopFrom(idx + 1, RunData, inflight \ {Klass},
                   Append(outcomes, [api |-> "sendNotification", klass |-> Klass,
                                     outcome |-> "rejected"]))
  /\ UNCHANGED <<config, transactions, store, enabledNotificationClasses,
                 accountsIds, accounts, groups, pure, other, elsewhere>>

Next ==
  \/ SendNotifications
  \/ AccountsResolve
  \/ AccountsReject
  \/ GroupsResolve
  \/ GroupsReject
  \/ SendResolve
  \/ SendReject

Spec == Init /\ [][Next]_vars

SpecAccounts == InitAccounts /\ [][Next]_vars

(***************************************************************************)
\* the run under the assumption that every pending external call settles:
\* a step that can be taken is taken in the end
InitLive ==
  /\ config \in Configs({Rule("true", "100"), Null}, MaxConfigured)
  /\ transactions = <<[account |-> "A1"], [account |-> "A2"]>>
  /\ store = [accounts |-> {"A1"}, groups |-> <<[_id |-> "G1"]>>]
  /\ InitRun
  /\ pure = [op |-> "none"]

SpecLive == InitLive /\ [][Next]_vars /\ WF_vars(Next)

(***************************************************************************)
(* Runs over rule records of several fields, one of them named as a field  *)
(* of the bundle itself                                                    *)
(***************************************************************************)
PlainRule == Obj([enabled |-> Prim("true"), value |-> Prim("100"),
                  accountOrGroup |-> Prim("'A1'")])

\* a rule record with a field named `data`
DataRule == Obj([enabled |-> Prim("true"), value |-> Prim("1"),
                 data |-> Prim("'mine'")])

OptionEntries ==
  {PlainRule, DataRule, Arr(<<PlainRule, DataRule>>), Arr(<<DataRule, PlainRule>>)}

InitOptions ==
  /\ config \in Configs(OptionEntries, MaxConfigured)
  /\ transactions = <<[account |-> "A1"]>>
  /\ store = [accounts |-> {"A1"}, groups |-> <<[_id |-> "G1"]>>]
  /\ InitRun
  /\ pure = [op |-> "none"]

SpecOptions == InitOptions /\ [][Next]_vars

(***************************************************************************)
(* Two overlapping runs.  Each call of sendNotifications has its own       *)
(* locals (config, transactions, enabledNotificationClasses, accounts,     *)
(* groups, the position of its loop); the module keeps nothing a run       *)
(* writes.  The event loop runs one of the two up to its next await, and   *)
(* may then resume either: the variables of the run hold the run in hand,  *)
(* `other` the suspended one.  Both read the same store.                   *)
(***************************************************************************)
\* the locals and the history of the run in hand
ThisRun ==
  [config |-> config, transactions |-> transactions, pc |-> pc, error |-> error,
   enabledNotificationClasses |-> enabledNotificationClasses,
   accountsIds |-> accountsIds, accounts |-> accounts, groups |-> groups,
   idx |-> idx, inflight |-> inflight, calls |-> calls, outcomes |-> outcomes,
   log |-> log]

\* a run before its call
NewRun(cfg, batch) ==
  [config |-> cfg, transactions |-> batch, pc |-> "idle", error |-> "none",
   enabledNotificationClasses |-> <<>>, accountsIds |-> <<>>, accounts |-> <<>>,
   groups |-> <<>>, idx |-> 0, inflight |-> {}, calls |-> <<>>,
   outcomes |-> <<>>, log |-> <<>>]

FirstConfig ==
  [notifications |-> [balanceLower |-> Rule("true", "100"),
                      healthBillLinked |-> Rule("true", "100")]]

\* the first run has a fixed configuration and batch, the second one any
\* other configuration, and a batch of other accounts
InitTwoRuns ==
  /\ store = [accounts |-> {"A1", "A2"}, groups |-> <<[_id |-> "G1"]>>]
  /\ pure = [op |-> "none"]
  /\ \E cfg \in Configs({Rule("true", "100")}, MaxConfigured) \ {FirstConfig} :
        other = [turn |-> 2,
                 run |-> NewRun(cfg, <<[account |-> "A2"], [account |-> "A3"]>>)]
  /\ config = FirstConfig
  /\ transactions = <<[account |-> "A1"]>>
  /\ InitLocals

\* the event loop resuming the suspended run, with the accounts of the run
\* it leaves: `accounts` kept in the module instead of in the call
SwitchSharingAccounts ==
  /\ other.turn # 0
  /\ other' = [turn |-> 3 - other.turn, run |-> ThisRun]
  /\ config' = other.run.config
  /\ transactions' = other.run.transactions
  /\ pc' = other.run.pc
  /\ error' = other.run.error
  /\ enabledNotificationClasses' = other.run.enabledNotificationClasses
  /\ accountsIds' = other.run.accountsIds
  /\ groups' = other.run.groups
  /\ idx' = other.run.idx
  /\ inflight' = other.run.inflight
  /\ calls' = other.run.calls
  /\ outcomes' = other.run.outcomes
  /\ log' = other.run.log
  /\ UNCHANGED <<accounts, store, pure, elsewhere>>

\* the event loop leaves the run in hand at its await (or at its end) and
\* resumes the other one with the locals it had
Switch ==
  /\ other.turn # 0
  /\ other' = [turn |-> 3 - other.turn, run |-> ThisRun]
  /\ config' = other.run.config
  /\ transactions' = other.run.transactions
  /\ pc' = other.run.pc
  /\ error' = other.run.error
  /\ enabledNotificationClasses' = other.run.enabledNotificationClasses
  /\ accountsIds' = other.run.accountsIds
  /\ accounts' = other.run.accounts
  /\ groups' = other.run.groups
  /\ idx' = other.run.idx
  /\ inflight' = other.run.inflight
  /\ calls' = other.run.calls
  /\ outcomes' = other.run.outcomes
  /\ log' = other.run.log
  /\ UNCHANGED <<store, pure, elsewhere>>

NextTwoRuns ==
  \/ SendNotifications
  \/ AccountsResolve
  \/ AccountsReject
  \/ GroupsResolve
  \/ GroupsReject
  \/ SendResolve
  \/ SendReject
  \/ Switch

SpecTwoRuns == InitTwoRuns /\ [][NextTwoRuns]_vars

(* Direct calls of the rule functions                                      *)
(***************************************************************************)
EnabledLits == {"true", "false", "1", "0", "'yes'", "''"}

ValueLits == {"100", "NaN"}

\* rule records: any `enabled` value, or none at all
AllRules ==
  {Rule(e, v) : e \in EnabledLits, v \in ValueLits}
    \cup {Obj([value |-> Prim(v)]) : v \in ValueLits}

\* what a configuration entry may hold: null, a scalar, a mapping, a sequence
\* of mappings and nulls
ShapeEntries ==
  {Null, Prim("'abc'"), Prim("5"), Prim("true"), Prim("false"), Prim("0"),
   Prim("''")}
    \cup AllRules
    \cup {Arr(s) : s \in SeqsUpTo(AllRules \cup {Null}, MaxRules)}

InitRules ==
  /\ config \in Configs(ShapeEntries, 1)
  /\ transactions = <<>>
  /\ store = [accounts |-> {}, groups |-> <<>>]
  /\ InitRun
  /\ pure = [op |-> "none"]

CallGetClassRules ==
  /\ \E Klass \in Classes :
       pure' = [op |-> "getClassRules", klass |-> Klass,
                ret |-> getClassRules(Klass, config)]
  /\ UNCHANGED <<config, transactions, store, pc, error,
                 enabledNotificationClasses, accountsIds, accounts, groups, idx,
                 inflight, calls, outcomes, log, other, elsewhere>>

CallGetValidClassRules ==
  /\ \E Klass \in Classes :
       pure' = [op |-> "getValidClassRules", klass |-> Klass,
                ret |-> getValidClassRules(Klass, config)]
  /\ UNCHANGED <<config, transactions, store, pc, error,
                 enabledNotificationClasses, accountsIds, accounts, groups, idx,
                 inflight, calls, outcomes, log, other, elsewhere>>

CallGetEnabledNotificationClasses ==
  /\ pure' = [op |-> "getEnabledNotificationClasses",
              ret |-> getEnabledNotificationClasses(config)]
  /\ UNCHANGED <<config, transactions, store, pc, error,
                 enabledNotificationClasses, accountsIds, accounts, groups, idx,
                 inflight, calls, outcomes, log, other, elsewhere>>

NextRules ==
  \/ CallGetClassRules
  \/ CallGetValidClassRules
  \/ CallGetEnabledNotificationClasses

SpecRules == InitRules /\ [][NextRules]_vars
(***************************************************************************)
(***************************************************************************)
(* Direct calls of the rule functions around a run: a caller may resolve   *)
(* the rules or the enabled classes of the configuration at any moment of  *)
(* a sendNotifications run, and may ask again.                             *)
(***************************************************************************)
\* the entries of these runs: an enabled rule, a disabled one, a sequence
CallEntries ==
  {Rule("true", "100"), Rule("false", "100"), Arr(<<Rule("true", "100")>>)}

InitCalls ==
  /\ config \in Configs(CallEntries, MaxConfigured)
  /\ transactions = <<[account |-> "A1"]>>
  /\ store = [accounts |-> {"A1"}, groups |-> <<>>]
  /\ InitRun
  /\ pure = [op |-> "none"]

\* a second call that writes the resolved rules back into the configuration
CallGetEnabledNotificationClassesInPlace ==
  /\ pure.op = "getEnabledNotificationClasses"
  /\ pure' = [op |-> "getEnabledNotificationClasses",
              ret |-> getEnabledNotificationClasses(config),
              before |-> pure.ret]
  /\ config' = [notifications |->
                  [k \in DOMAIN config.notifications |->
                     getClassRules(CHOOSE K \in Classes : settingKey(K) = k,
                                   config)]]
  /\ UNCHANGED <<transactions, store, pc, error,
                 enabledNotificationClasses, accountsIds, accounts, groups, idx,
                 inflight, calls, outcomes, log, other, elsewhere>>

\* a second call of getEnabledNotificationClasses with the same configuration
\* object; the caller keeps what the call before returned
CallGetEnabledNotificationClassesAgain ==
  /\ pure.op = "getEnabledNotificationClasses"
  /\ pure' = [op |-> "getEnabledNotificationClasses",
              ret |-> getEnabledNotificationClasses(config),
              before |-> pure.ret]
  /\ UNCHANGED <<config, transactions, store, pc, error,
                 enabledNotificationClasses, accountsIds, accounts, groups, idx,
                 inflight, calls, outcomes, log, other, elsewhere>>

NextCalls ==
  \/ SendNotifications
  \/ AccountsResolve
  \/ AccountsReject
  \/ GroupsResolve
  \/ GroupsReject
  \/ SendResolve
  \/ SendReject
  \/ CallGetClassRules
  \/ CallGetValidClassRules
  \/ CallGetEnabledNotificationClasses
  \/ CallGetEnabledNotificationClassesAgain

SpecCalls == InitCalls /\ [][NextCalls]_vars

(***************************************************************************)
(* The time budget of the categorization service                           *)
(* (src/en/cozy-banks/src/ducks/categorization/services.js)                *)
(***************************************************************************)
\* the idle state of the notification pipeline, for the specifications of
\* the sibling services
InitNotificationsIdle ==
  /\ config = [notifications |-> <<>>]
  /\ transactions = <<>>
  /\ store = [accounts |-> {}, groups |-> <<>>]
  /\ pure = [op |-> "none"]
  /\ other = NoOther
  /\ pc = "idle"
  /\ error = "none"
  /\ enabledNotificationClasses = <<>>
  /\ accountsIds = <<>>
  /\ accounts = <<>>
  /\ groups = <<>>
  /\ idx = 0
  /\ inflight = {}
  /\ calls = <<>>
  /\ outcomes = <<>>
  /\ log = <<>>

\* the times a caller passes: what categorizeChunk measured, negative when
\* the clock was set back meanwhile
Times == (0 - 1)..MaxTime

\* the limits the environment may set, or none
Limits == {NaN} \cup {Number(n) : n \in 1..(MaxTime + 1)}

InitTime ==
  /\ InitNotificationsIdle
  /\ InitChunksUnused
  /\ InitSettingsUnused
  /\ InitTrackerUnused
  /\ highestTime = 0
  /\ MAX_EXECUTION_TIME \in Limits
  /\ now = 0
  /\ timeCalls = <<>>

\* Math.max(a, b) of two whole numbers
MathMax(a, b) == IF a >= b THEN a ELSE b

\* a < b as JavaScript compares a number with what parseInt returned: every
\* comparison with NaN is false
LessThan(a, b) == b.kind = "number" /\ a < b.value

\* updateTimeTracking keeping the last time instead of the highest
UpdateTimeTrackingLast ==
  /\ Len(timeCalls) < MaxTimeCalls
  /\ \E time \in Times :
       /\ highestTime' = time
       /\ timeCalls' = Append(timeCalls, [op |-> "updateTimeTracking",
                                          time |-> time])
  /\ UNCHANGED <<MAX_EXECUTION_TIME, now, exceptTime>>

UpdateTimeTracking ==
  /\ Len(timeCalls) < MaxTimeCalls
  /\ \E time \in Times :
       /\ highestTime' = MathMax(highestTime, time)
       /\ timeCalls' = Append(timeCalls, [op |-> "updateTimeTracking",
                                          time |-> time])
  /\ UNCHANGED <<MAX_EXECUTION_TIME, now, exceptTime>>

\* canCategorizeNextChunk comparing the time spent alone with the limit
CanCategorizeNextChunkSpentOnly ==
  /\ Len(timeCalls) < MaxTimeCalls
  /\ LET executionTime == now
     IN timeCalls' = Append(timeCalls,
                       [op |-> "canCategorizeNextChunk",
                        executionTime |-> executionTime,
                        highestTime |-> highestTime,
                        ret |-> LessThan(executionTime, MAX_EXECUTION_TIME)])
  /\ UNCHANGED <<highestTime, MAX_EXECUTION_TIME, now, exceptTime>>

CanCategorizeNextChunk ==
  /\ Len(timeCalls) < MaxTimeCalls
  /\ LET executionTime == now
         nextExecutionTime == executionTime + highestTime
     IN timeCalls' = Append(timeCalls,
                       [op |-> "canCategorizeNextChunk",
                        executionTime |-> executionTime,
                        highestTime |-> highestTime,
                        ret |-> LessThan(nextExecutionTime, MAX_EXECUTION_TIME)])
  /\ UNCHANGED <<highestTime, MAX_EXECUTION_TIME, now, exceptTime>>

\* the clock advances by a second
Tick ==
  /\ now < MaxTime
  /\ now' = now + 1
  /\ UNCHANGED <<highestTime, MAX_EXECUTION_TIME, timeCalls, exceptTime>>

NextTime ==
  \/ UpdateTimeTracking
  \/ CanCategorizeNextChunk
  \/ Tick

SpecTime == InitTime /\ [][NextTime]_vars

(***************************************************************************)
(* fetchChunksToCategorize                                                 *)
(***************************************************************************)
CHUNK_SIZE == 100

\* how many transactions are marked: none, one, and one less, as many and
\* one more than each whole number of chunks
Sizes ==
  {n \in 0..(MaxChunks * CHUNK_SIZE + 1) :
     \E k \in 0..MaxChunks :
        n \in {k * CHUNK_SIZE - 1, k * CHUNK_SIZE, k * CHUNK_SIZE + 1}}

\* n stored transactions whose dates run through m days in strides
Stored(n, m, stride) ==
  [i \in 1..n |-> [_id |-> i, date |-> (i * stride) % m]]

InitChunks ==
  /\ InitNotificationsIdle
  /\ InitTimeUnused
  /\ InitSettingsUnused
  /\ InitTrackerUnused
  /\ \E n \in Sizes : \E m \in 1..MaxDates : \E stride \in 1..MaxDates :
        toCategorize = Stored(n, m, stride)
  /\ chunks = [state |-> "none"]

\* _.sortBy(seq, t => t.date): ascending, stable
RECURSIVE SortByDateFrom(_, _)
SortByDateFrom(seq, d) ==
  IF d >= MaxDates + 1 THEN <<>>
  ELSE SelectSeq(seq, LAMBDA t : t.date = d) \o SortByDateFrom(seq, d + 1)

sortByDate(seq) == SortByDateFrom(seq, 0)

\* no reversal
ReverseNot(seq) == seq

\* Array.prototype.reverse
Reverse(seq) == [i \in 1..Len(seq) |-> seq[Len(seq) + 1 - i]]

\* _.chunk(seq, size): pieces of `size` elements, the last one of the rest
chunk(seq, size) ==
  [c \in 1..((Len(seq) + size - 1) \div size) |->
     SubSeq(seq, (c - 1) * size + 1,
            IF c * size <= Len(seq) THEN c * size ELSE Len(seq))]

\* the call, up to the await of BankTransaction.queryAll
FetchChunksToCategorize ==
  /\ chunks.state = "none"
  /\ chunks' = [state |-> "pending"]
  /\ UNCHANGED <<toCategorize, exceptChunks>>

\* the query resolves with the marked transactions: they are sorted, the
\* order is reversed, and the chunks are returned
QueryAllResolve ==
  /\ chunks.state = "pending"
  /\ LET sortedToCategorize == Reverse(sortByDate(toCategorize))
     IN chunks' = [state |-> "resolved",
                   value |-> chunk(sortedToCategorize, CHUNK_SIZE)]
  /\ UNCHANGED <<toCategorize, exceptChunks>>

\* the query rejects: nothing catches it
QueryAllReject ==
  /\ chunks.state = "pending"
  /\ chunks' = [state |-> "rejected"]
  /\ UNCHANGED <<toCategorize, exceptChunks>>

NextChunks ==
  \/ FetchChunksToCategorize
  \/ QueryAllResolve
  \/ QueryAllReject

SpecChunks == InitChunks /\ [][NextChunks]_vars

(***************************************************************************)
(* The settings functions of the categorization service: fetchSettings,    *)
(* updateSettings, fetchCategoryAlerts, updateCategoryAlerts.  Several     *)
(* calls may be pending at once; each has its own locals.  The store       *)
(* writes the document a call hands it: services.js compares no revision   *)
(* and retries nothing.                                                    *)
(***************************************************************************)
\* DEFAULTS_SETTINGS of ducks/settings/constants
DEFAULTS_SETTINGS ==
  [notifications |-> "defaults", categoryBudgetAlerts |-> <<>>]

\* r with its field f set to v
With(r, f, v) == [x \in DOMAIN r \cup {f} |-> IF x = f THEN v ELSE r[x]]

\* merge({}, DEFAULTS_SETTINGS, incompleteSettings): the fields of the
\* document over the defaults; an undefined document leaves the defaults
getDefaultedSettings(incompleteSettings) ==
  IF incompleteSettings = <<>> THEN DEFAULTS_SETTINGS
  ELSE [f \in DOMAIN DEFAULTS_SETTINGS \cup DOMAIN incompleteSettings |->
          IF f \in DOMAIN incompleteSettings THEN incompleteSettings[f]
          ELSE DEFAULTS_SETTINGS[f]]

\* get(col, 'data[0]'), then the defaults; <<>> stands for undefined
getDefaultedSettingsFromCollection(col) ==
  getDefaultedSettings(IF col = <<>> THEN <<>> ELSE col[1])

AlertLists == {<<>>, <<"a1">>, <<"a2">>}

\* the calls a process makes, before they are made
OpCalls ==
  {[op |-> "updateCategoryAlerts", pc |-> "idle", arg |-> a] : a \in AlertLists}
    \cup {[op |-> "updateSettings", pc |-> "idle",
           arg |-> [notifications |-> "n1", categoryBudgetAlerts |-> <<"a0">>]]}
    \cup {[op |-> "fetchCategoryAlerts", pc |-> "idle"]}

\* the store holds no settings document, one without alerts, or a full one
InitSettings ==
  /\ InitNotificationsIdle
  /\ InitTimeUnused
  /\ InitChunksUnused
  /\ InitTrackerUnused
  /\ settingsCol \in {<<>>, <<[notifications |-> "n0"]>>,
                      <<[notifications |-> "n0",
                         categoryBudgetAlerts |-> <<"a0">>]>>}
  /\ ops \in UNION {[1..n -> OpCalls] : n \in 1..MaxOps}
  /\ settingsLog = <<>>

\* fetchCategoryAlerts, up to the await of client.query in fetchSettings
FetchCategoryAlerts ==
  /\ \E p \in DOMAIN ops :
       /\ ops[p].op = "fetchCategoryAlerts"
       /\ ops[p].pc = "idle"
       /\ ops' = [ops EXCEPT ![p] = With(@, "pc", "fetching")]
  /\ UNCHANGED <<settingsCol, settingsLog, exceptSettings>>

\* updateCategoryAlerts, up to the await of client.query in fetchSettings
UpdateCategoryAlerts ==
  /\ \E p \in DOMAIN ops :
       /\ ops[p].op = "updateCategoryAlerts"
       /\ ops[p].pc = "idle"
       /\ ops' = [ops EXCEPT ![p] = With(@, "pc", "fetching")]
  /\ UNCHANGED <<settingsCol, settingsLog, exceptSettings>>

\* updateSettings, up to the await of col.update(newSettings)
UpdateSettings ==
  /\ \E p \in DOMAIN ops :
       /\ ops[p].op = "updateSettings"
       /\ ops[p].pc = "idle"
       /\ ops' = [ops EXCEPT ![p] = With(With(@, "doc", @.arg), "pc", "writing")]
  /\ UNCHANGED <<settingsCol, settingsLog, exceptSettings>>

\* client.query resolves with the collection: fetchSettings returns the
\* defaulted document; fetchCategoryAlerts returns its alerts,
\* updateCategoryAlerts sets them and calls updateSettings
FindResolve ==
  /\ \E p \in DOMAIN ops :
       /\ ops[p].pc = "fetching"
       /\ LET settings == getDefaultedSettingsFromCollection(settingsCol)
              seen == With(ops[p], "col", settingsCol)
          IN ops' = [ops EXCEPT ![p] =
               IF ops[p].op = "fetchCategoryAlerts"
               THEN With(With(seen, "ret", settings.categoryBudgetAlerts),
                         "pc", "resolved")
               ELSE With(With(seen, "doc",
                              With(settings, "categoryBudgetAlerts", ops[p].arg)),
                         "pc", "writing")]
  /\ UNCHANGED <<settingsCol, settingsLog, exceptSettings>>

\* client.query rejects and nothing catches it, in fetchCategoryAlerts too
FindRejectUncaught ==
  /\ \E p \in DOMAIN ops :
       /\ ops[p].pc = "fetching"
       /\ ops' = [ops EXCEPT ![p] = With(With(@, "failed", "fetch"),
                                         "pc", "rejected")]
  /\ UNCHANGED <<settingsCol, settingsLog, exceptSettings>>

\* client.query rejects: the catch of fetchCategoryAlerts logs the error and
\* returns []; updateCategoryAlerts has no catch
FindReject ==
  /\ \E p \in DOMAIN ops :
       /\ ops[p].pc = "fetching"
       /\ IF ops[p].op = "fetchCategoryAlerts"
          THEN /\ settingsLog' =
                    Append(settingsLog,
                           [level |-> "error",
                            what |-> "Error while fetching category alerts",
                            by |-> p])
               /\ ops' = [ops EXCEPT ![p] =
                            With(With(With(@, "failed", "fetch"), "ret", <<>>),
                                 "pc", "resolved")]
          ELSE /\ settingsLog' = settingsLog
               /\ ops' = [ops EXCEPT ![p] = With(With(@, "failed", "fetch"),
                                                 "pc", "rejected")]
  /\ UNCHANGED <<settingsCol, exceptSettings>>

\* col.update resolves: the store holds the document it was handed
ColUpdateResolve ==
  /\ \E p \in DOMAIN ops :
       /\ ops[p].pc = "writing"
       /\ settingsCol' = <<ops[p].doc>>
       /\ ops' = [ops EXCEPT ![p] = With(@, "pc", "resolved")]
  /\ UNCHANGED <<settingsLog, exceptSettings>>

\* col.update rejects: nothing catches it
ColUpdateReject ==
  /\ \E p \in DOMAIN ops :
       /\ ops[p].pc = "writing"
       /\ ops' = [ops EXCEPT ![p] = With(With(@, "failed", "update"),
                                         "pc", "rejected")]
  /\ UNCHANGED <<settingsCol, settingsLog, exceptSettings>>

NextSettings ==
  \/ FetchCategoryAlerts
  \/ UpdateCategoryAlerts
  \/ UpdateSettings
  \/ FindResolve
  \/ FindReject
  \/ ColUpdateResolve
  \/ ColUpdateReject

SpecSettings == InitSettings /\ [][NextSettings]_vars

(***************************************************************************)
(* isNotificationEnabled of the categorization service, called on the      *)
(* settings getEnabledNotificationClasses was called on                    *)
(***************************************************************************)
\* _.get(settings, 'notifications.<key>.enabled'): undefined as soon as a
\* step of the path is missing; it never throws
getEnabledOf(settings, key) ==
  LET entry == ConfigEntry(settings, key) IN
  IF entry.kind = "object" /\ "enabled" \in DOMAIN entry.fields
  THEN entry.fields.enabled
  ELSE Undefined

\* a || b
Or(a, b) == IF ToBoolean(a) THEN a ELSE b

isNotificationEnabled(settings) ==
  Or(getEnabledOf(settings, "balanceLower"),
     Or(getEnabledOf(settings, "transactionGreater"),
        getEnabledOf(settings, "healthBillLinked")))

\* the caller asks isNotificationEnabled about the settings it has just
\* resolved the enabled classes of, and keeps both answers
CallIsNotificationEnabled ==
  /\ pure.op = "getEnabledNotificationClasses"
  /\ pure' = [op |-> "isNotificationEnabled",
              ret |-> isNotificationEnabled(config),
              classes |-> pure.ret]
  /\ UNCHANGED <<config, transactions, store, pc, error,
                 enabledNotificationClasses, accountsIds, accounts, groups, idx,
                 inflight, calls, outcomes, log, other, elsewhere>>

NextEnabled ==
  \/ CallGetEnabledNotificationClasses
  \/ CallIsNotificationEnabled

SpecEnabled == InitRules /\ [][NextEnabled]_vars

(***************************************************************************)
(* The tracker of ducks/tracking/browser.jsx.  uiGetTracker of cozy-ui is  *)
(* the environment: each call gives a Matomo tracker or nothing.  The      *)
(* alerts shown under the flag banks.show-tracking-alerts push nothing to  *)
(* the tracker and are left out.                                           *)
(***************************************************************************)
\* the module's trackerShim, one object
trackerShim == [kind |-> "shim"]

\* the n-th object getMatomoTracker built around a tracker of cozy-ui
MatomoTracker(n) == [kind |-> "matomo", id |-> n]

\* the first argument of a call, the key memoize caches under: none for the
\* calls of browser.jsx, __TARGET__ for the call
\* getTracker(__TARGET__, { e_a: 'LocalCategorization' })
Keys == {"undefined", "__TARGET__"}

String(chars) == [kind |-> "string", chars |-> chars]

\* pagePath.replace(/:/g, '/')
ReplaceColons(chars) ==
  [i \in 1..Len(chars) |-> IF chars[i] = ":" THEN "/" ELSE chars[i]]

Command(to, name, args) == [to |-> to, name |-> name, args |-> args]

\* trackerInstance.push of the two settings, on the tracker just obtained
Configure(n) ==
  << Command(n, "setTrackerUrl",
             <<Prim("'https://matomo.cozycloud.cc/matomo.php'")>>),
     Command(n, "setSiteId", <<Prim("8")>>) >>

Created == {e.tracker : e \in {e \in cache : e.tracker.kind = "matomo"}}

\* memoize(func)(key): the cached value of the key when there is one, else
\* the result of func, cached under the key.  func is the body of
\* getMatomoTracker; `instance` says whether uiGetTracker gives a tracker
getMatomoTracker(key, instance) ==
  IF \E e \in cache : e.key = key
  THEN [tracker |-> (CHOOSE e \in cache : e.key = key).tracker,
        cache |-> cache, pushed |-> <<>>]
  ELSE LET tracker == IF instance
                      THEN MatomoTracker(Cardinality(Created) + 1)
                      ELSE trackerShim
       IN [tracker |-> tracker,
           cache |-> cache \cup {[key |-> key, tracker |-> tracker]},
           pushed |-> IF instance THEN Configure(tracker.id) ELSE <<>>]

\* tracker.trackEvent(event): what it pushes, or the throw
TrackerTrackEvent(tracker, event) ==
  IF tracker.kind = "shim" THEN [threw |-> "no", sent |-> <<>>]
  ELSE IF Throws(Get(event, "name"))
  THEN [threw |-> "TypeError", sent |-> <<>>]
  ELSE IF ~ToBoolean(Get(event, "name"))
  THEN [threw |-> "An event must have at least a name", sent |-> <<>>]
  ELSE [threw |-> "no",
        sent |-> << Command(tracker.id, "trackEvent",
                            << Get(event, "category"), Get(event, "name"),
                               Get(event, "action") >>) >>]

\* tracker.trackPage(pagePath)
TrackerTrackPage(tracker, pagePath) ==
  IF tracker.kind = "shim" THEN [threw |-> "no", sent |-> <<>>]
  ELSE IF pagePath.kind # "string"
  THEN [threw |-> "TypeError", sent |-> <<>>]
  ELSE [threw |-> "no",
        sent |-> << Command(tracker.id, "setCustomUrl",
                            <<String(<<"https://cozy-banks/">>
                                     \o ReplaceColons(pagePath.chars))>>),
                    Command(tracker.id, "trackPageView", <<>>) >>]

Events ==
  { Obj([name |-> Prim("'open'"), action |-> Prim("'click'")]),
    Obj([name |-> Prim("''"), action |-> Prim("'click'")]),
    Obj([e_n |-> Prim("'TransactionsUsingLocalCategory'")]),
    Undefined }

Paths == { String(<<"balances">>), String(<<"settings", ":", "tab">>),
           Undefined }

InitTracker ==
  /\ InitNotificationsIdle
  /\ InitTimeUnused
  /\ InitChunksUnused
  /\ InitSettingsUnused
  /\ InitTrackerUnused

Called(op, arg, got, done) ==
  [op |-> op, arg |-> arg, tracker |-> got.tracker,
   configured |-> Len(got.pushed), threw |-> done.threw, sent |-> done.sent]

Nothing == [threw |-> "no", sent |-> <<>>]

\* getTracker(key, ...)
CallGetTracker ==
  /\ Len(trackerCalls) < MaxTrackerCalls
  /\ \E key \in Keys, instance \in BOOLEAN :
       LET got == getMatomoTracker(key, instance) IN
       /\ cache' = got.cache
       /\ pushed' = pushed \o got.pushed
       /\ trackerCalls' =
            Append(trackerCalls, Called("getTracker", Prim(key), got, Nothing))
  /\ UNCHANGED exceptTracker

\* trackEvent(options)
CallTrackEvent ==
  /\ Len(trackerCalls) < MaxTrackerCalls
  /\ \E options \in Events, instance \in BOOLEAN :
       LET got == getMatomoTracker("undefined", instance)
           done == TrackerTrackEvent(got.tracker, options)
       IN /\ cache' = got.cache
          /\ pushed' = pushed \o got.pushed \o done.sent
          /\ trackerCalls' =
               Append(trackerCalls, Called("trackEvent", options, got, done))
  /\ UNCHANGED exceptTracker

\* trackPage(options)
CallTrackPage ==
  /\ Len(trackerCalls) < MaxTrackerCalls
  /\ \E options \in Paths, instance \in BOOLEAN :
       LET got == getMatomoTracker("undefined", instance)
           done == TrackerTrackPage(got.tracker, options)
       IN /\ cache' = got.cache
          /\ pushed' = pushed \o got.pushed \o done.sent
          /\ trackerCalls' =
               Append(trackerCalls, Called("trackPage", options, got, done))
  /\ UNCHANGED exceptTracker

\* a render of TrackerProvider: the tracker becomes the value of the context
RenderTrackerProvider ==
  /\ Len(trackerCalls) < MaxTrackerCalls
  /\ \E instance \in BOOLEAN :
       LET got == getMatomoTracker("undefined", instance) IN
       /\ cache' = got.cache
       /\ pushed' = pushed \o got.pushed
       /\ trackerCalls' =
            Append(trackerCalls,
                   Called("TrackerProvider", Undefined, got, Nothing))
  /\ UNCHANGED exceptTracker

NextTracker ==
  \/ CallGetTracker
  \/ CallTrackEvent
  \/ CallTrackPage
  \/ RenderTrackerProvider

SpecTracker == InitTracker /\ [][NextTracker]_vars

(* Vocabulary of the properties                                            *)
(***************************************************************************)
Finished == pc \in {"resolved", "rejected"}

\* how often an api was called for a class
CallCount(api, Klass) ==
  Cardinality({i \in 1..Len(calls) : calls[i].api = api /\ calls[i].klass = Klass})

Rejected(api) ==
  \E i \in 1..Len(outcomes) :
     outcomes[i].api = api /\ outcomes[i].outcome = "rejected"

\* a rule record whose `enabled` is the boolean true
StrictlyEnabled(rule) ==
  /\ rule.kind = "object"
  /\ "enabled" \in DOMAIN rule.fields
  /\ rule.fields.enabled = Prim("true")

\* a rule record whose `enabled` is any truthy value
TruthyEnabled(rule) ==
  /\ rule.kind = "object"
  /\ "enabled" \in DOMAIN rule.fields
  /\ rule.fields.enabled.kind = "primitive"
  /\ rule.fields.enabled.lit \in {"true", "1", "100", "'yes'", "'abc'"}

\* the valid rules of a class: its resolved rules, less those its isValidRule
\* turns down
ValidRules(Klass, cfg) ==
  LET rules == getValidClassRules(Klass, cfg) IN
  IF IsArray(rules) THEN rules.items ELSE <<>>

\* an enabled class: one with a valid rule whose `enabled` is truthy
IsEnabledClass(Klass, cfg) ==
  \E i \in 1..Len(ValidRules(Klass, cfg)) : TruthyEnabled(ValidRules(Klass, cfg)[i])

EnabledClasses(cfg) == {K \in Classes : IsEnabledClass(K, cfg)}

\* position of a class in the registry
RegistryIndex(Klass) == CHOOSE i \in 1..Len(notificationClasses) : notificationClasses[i] = Klass

(***************************************************************************)
(* C1: in a run whose enabled classes, accounts and groups were resolved,  *)
(* when sendNotification rejected for some class the run still calls       *)
(* sendNotification for every other enabled class and resolves.            *)
(* Stated on finished runs.  The code refutes it: a throw of new Klass for *)
(* a later class (C3) rejects the run.                                     *)
(***************************************************************************)
C1_SendFailureIsolated ==
  (Finished /\ Rejected("sendNotification"))
    => /\ pc = "resolved"
       /\ \A K \in EnabledClasses(config) : CallCount("sendNotification", K) >= 1

(***************************************************************************)
(* C2: no rule record whose `enabled` is not true is handed to a           *)
(* notification class, neither in `rules` nor flattened into the bundle.   *)
(* The code refutes it: the bundle is built from getClassRules, unfiltered.*)
(***************************************************************************)
C2_OnlyEnabledRulesHanded ==
  \A i \in 1..Len(calls) :
     calls[i].api = "new Klass" =>
       IF "rules" \in DOMAIN calls[i].options
       THEN \A j \in 1..Len(calls[i].options.rules.items) :
               StrictlyEnabled(calls[i].options.rules.items[j])
       ELSE /\ "enabled" \in DOMAIN calls[i].options
            /\ calls[i].options.enabled = Prim("true")

(***************************************************************************)
(* C3: a run rejects only when resolving the enabled classes, the accounts *)
(* or the groups fails; a throw while building the bundle or in new Klass  *)
(* is caught and the remaining classes are still attempted.                *)
(* The code refutes it: new Klass(...) stands outside the try.             *)
(***************************************************************************)
C3_ClassFailureNeverRejects ==
  /\ pc = "rejected" => error \in {"TypeError", "AccountsError", "GroupsError"}
  /\ Finished /\ error \notin {"TypeError", "AccountsError", "GroupsError"}
       => \A K \in EnabledClasses(config) : CallCount("new Klass", K) >= 1

C5_OneSendPerEnabledClass ==
  \A K \in Classes :
     /\ CallCount("sendNotification", K) <= 1
     /\ K \notin EnabledClasses(config) => CallCount("sendNotification", K) = 0
     /\ (pc = "resolved" /\ K \in EnabledClasses(config))
          => CallCount("sendNotification", K) = 1

\* a resolved run of two enabled classes, each sent once
C5_Witness ==
  /\ pc = "resolved"
  /\ Cardinality(EnabledClasses(config)) = 2
  /\ \A K \in EnabledClasses(config) : CallCount("sendNotification", K) = 1

(***************************************************************************)
(* C6: the enabled classes are processed one at a time in registry order:  *)
(* at most one send is pending, a class is built only after the sends of   *)
(* all classes before it have ended, and the classes follow each other in  *)
(* the order of the registry.                                              *)
(***************************************************************************)
C6_OneClassAtATime ==
  LET made == SelectSeq(calls, LAMBDA c : c.api = "new Klass")
      ended == SelectSeq(outcomes, LAMBDA o : o.api = "sendNotification")
  IN /\ Cardinality(inflight) <= 1
     /\ Len(made) <= Len(ended) + 1
     /\ \A i \in 1..Len(ended) : ended[i].klass = made[i].klass
     /\ \A i \in 1..Len(made) : \A j \in 1..Len(made) :
           i < j => RegistryIndex(made[i].klass) < RegistryIndex(made[j].klass)

\* the second class's send is pending and the first one's has ended
C6_Witness ==
  /\ pc = "awaitSend"
  /\ idx = 2
  /\ Cardinality(inflight) = 1
  /\ \E i \in 1..Len(outcomes) : outcomes[i].api = "sendNotification"

(***************************************************************************)
(* C7: when BankAccount.getAll or client.query rejects, the run rejects    *)
(* with that error and sendNotification is called for no class.            *)
(***************************************************************************)
C7_UpstreamFailureRejects ==
  \A i \in 1..Len(outcomes) :
     (outcomes[i].api \in {"BankAccount.getAll", "client.query"}
        /\ outcomes[i].outcome = "rejected")
       => /\ pc = "rejected"
          /\ error = outcomes[i].err
          /\ \A j \in 1..Len(calls) : calls[j].api # "sendNotification"

\* the group fetch rejected in a run that had classes to send
C7_Witness ==
  /\ Rejected("client.query")
  /\ pc = "rejected"
  /\ enabledNotificationClasses # <<>>

(***************************************************************************)
(* C8: fetchTransactionAccounts logs the missing-account warning exactly   *)
(* when some requested id is not among the returned accounts, and the      *)
(* warning names the number and the ids of exactly those.                  *)
(***************************************************************************)
Requested == {transactions[i].account : i \in 1..Len(transactions)}

\* what the store answered, once it has
Returned ==
  LET o == SelectSeq(outcomes, LAMBDA x : x.api = "BankAccount.getAll"
                                           /\ x.outcome = "resolved")
  IN IF o = <<>> THEN <<>> ELSE o[1].value

Missing == Requested \ {Returned[i]._id : i \in 1..Len(Returned)}

MissingWarnings == SelectSeq(log, LAMBDA l : l.what = "account(s) do not exist")

LookupResolved ==
  \E i \in 1..Len(outcomes) :
     outcomes[i].api = "BankAccount.getAll" /\ outcomes[i].outcome = "resolved"

C10_RulesNormalized ==
  pure.op = "getClassRules" =>
    LET entry == ConfigEntry(config, settingKey(pure.klass)) IN
    /\ entry.kind = "object" => pure.ret = Arr(<<entry>>)
    /\ entry.kind = "array" => pure.ret = entry

\* a single mapping came back wrapped
C10_Witness ==
  /\ pure.op = "getClassRules"
  /\ ConfigEntry(config, settingKey(pure.klass)).kind = "object"
  /\ pure.ret.kind = "array"
  /\ Len(pure.ret.items) = 1

(***************************************************************************)
(* C11: for a class that has no entry in the configuration, getClassRules  *)
(* returns the empty sequence, getEnabledNotificationClasses does not      *)
(* return the class, and a sendNotifications run neither lists it among    *)
(* its enabled classes nor calls sendNotification for it.                  *)
(***************************************************************************)
HasNoEntry(Klass) == settingKey(Klass) \notin DOMAIN config.notifications

C11_AbsentClassNeverSent ==
  \A K \in Classes :
     HasNoEntry(K) =>
       /\ (pure.op = "getClassRules" /\ pure.klass = K) => pure.ret = Arr(<<>>)
       /\ pure.op = "getEnabledNotificationClasses" =>
            /\ IsArray(pure.ret)
            /\ ~Has(pure.ret.items, K)
       /\ ~Has(enabledNotificationClasses, K)
       /\ CallCount("sendNotification", K) = 0
       /\ CallCount("new Klass", K) = 0

\* a resolved run that sent for a configured class, and a direct call of
\* getClassRules for a class without entry
C11_Witness ==
  /\ pc = "resolved"
  /\ \E K \in Classes : CallCount("sendNotification", K) = 1
  /\ pure.op = "getClassRules"
  /\ HasNoEntry(pure.klass)
  /\ pure.ret = Arr(<<>>)

(***************************************************************************)
(* C12: whatever a class's entry holds (nothing, null, a scalar, a         *)
(* mapping, a sequence, a sequence containing null), getClassRules returns *)
(* a sequence of rule records and getEnabledNotificationClasses returns    *)
(* without throwing.                                                       *)
(* The code refutes it: a null entry resolves to [null], a truthy scalar   *)
(* to the scalar itself, and rule.enabled or rules.some then throws.       *)
(***************************************************************************)
IsRuleSequence(v) ==
  /\ IsArray(v)
  /\ \A i \in 1..Len(v.items) : v.items[i].kind = "object"

C12_ShapeErrorsTolerated ==
  /\ pure.op = "getClassRules" => IsRuleSequence(pure.ret)
  /\ pure.op = "getEnabledNotificationClasses" => ~Throws(pure.ret)

(***************************************************************************)
(* C13: a second call of getEnabledNotificationClasses with the same       *)
(* configuration returns the same classes in the same order as the first,  *)
(* and no step, be it a direct call or a step of a sendNotifications run,  *)
(* changes the configuration.                                              *)
(***************************************************************************)
CalledTwice ==
  pure.op = "getEnabledNotificationClasses" /\ "before" \in DOMAIN pure

C14_SubsequenceOfRegistry ==
  (pure.op = "getEnabledNotificationClasses" /\ IsArray(pure.ret)) =>
    /\ \A i \in 1..Len(pure.ret.items) : pure.ret.items[i] \in Classes
    /\ \A i \in 1..Len(pure.ret.items) : \A j \in 1..Len(pure.ret.items) :
          i < j => RegistryIndex(pure.ret.items[i]) < RegistryIndex(pure.ret.items[j])

\* two classes were returned, the later of the registry listed second
C14_Witness ==
  /\ pure.op = "getEnabledNotificationClasses"
  /\ IsArray(pure.ret)
  /\ Len(pure.ret.items) = 2
  /\ pure.ret.items[2] = "DelayedDebit"

(***************************************************************************)
(* C15: when every external call settles, a sendNotifications run ends:    *)
(* it rejects because the account lookup or the group fetch failed, or it  *)
(* resolves after every enabled class has been attempted; no class is      *)
(* attempted twice.                                                        *)
(* The code refutes the two ways of ending: a throw of new Klass (C3) or   *)
(* of getEnabledNotificationClasses (C12) rejects the run as well.  That   *)
(* the run ends, and that no class is attempted twice, holds.              *)
(***************************************************************************)
EndsAsClaimed ==
  \/ pc = "rejected" /\ error \in {"AccountsError", "GroupsError"}
  \/ /\ pc = "resolved"
     /\ \A K \in EnabledClasses(config) : CallCount("new Klass", K) = 1

C15_RunFinishes ==
  /\ <>Finished
  /\ [](Finished => EndsAsClaimed)
  /\ [](\A K \in Classes : CallCount("new Klass", K) <= 1)

\* the part of C15 the code keeps: the run ends, no class attempted twice
C15_Terminates ==
  /\ <>Finished
  /\ [](\A K \in Classes : CallCount("new Klass", K) <= 1)

(***************************************************************************)
(* C16: the bundle of a dispatched class is built from the class's         *)
(* resolved rules.  A class that supports several rules gets them all, in  *)
(* the order of the configuration, as `rules`, and none of their fields in *)
(* the bundle itself; any other class gets no `rules` and every field of   *)
(* its first rule in the bundle, with the configured value.                *)
(***************************************************************************)
\* the entry of a class as a sequence of rule records
EntryRules(Klass) ==
  LET entry == config.notifications[settingKey(Klass)] IN
  IF entry.kind = "array" THEN entry.items ELSE <<entry>>

ContextFields == {"client", "t", "locales", "lang", "data"}

C17_SharedContextKept ==
  \A i \in 1..Len(calls) :
     calls[i].api = "new Klass" =>
       LET o == calls[i].options
       IN /\ ContextFields \subseteq DOMAIN o
          /\ o.client = client
          /\ o.t = "t"
          /\ o.locales = [en |-> "locales/en"]
          /\ o.lang = lang
          /\ o.data = RunData

(***************************************************************************)
(* C18: a run issues the account lookup once, asking for each distinct     *)
(* account of the batch once, and the group fetch once; the lookup is      *)
(* issued when the enabled classes have been computed, the group fetch     *)
(* when the lookup has resolved, and both have resolved before the first   *)
(* class is built or sent.  Neither is issued a second time, whatever the  *)
(* number of enabled classes or of missing accounts.  A run that rejects   *)
(* on the lookup ends before it would issue the group fetch.               *)
(***************************************************************************)
ApiCalls(api) == {i \in 1..Len(calls) : calls[i].api = api}

QueryResolved ==
  \E i \in 1..Len(outcomes) :
     outcomes[i].api = "client.query" /\ outcomes[i].outcome = "resolved"

C19_ValidRulesFiltered ==
  pure.op = "getValidClassRules" =>
    LET K == pure.klass
        resolved == getClassRules(K, config)
    IN IsRuleSequence(resolved) =>
         /\ ~Throws(pure.ret)
         /\ pure.ret =
              (IF hasIsValidRule(K)
               THEN Arr(SelectSeq(resolved.items,
                                  LAMBDA rule : isValidRule(K, rule) = Prim("true")))
               ELSE resolved)
         /\ resolved.items = <<>> => pure.ret = Arr(<<>>)

\* of two resolved rules the class's isValidRule turned the first one down
C19_Witness ==
  /\ pure.op = "getValidClassRules"
  /\ hasIsValidRule(pure.klass)
  /\ IsRuleSequence(getClassRules(pure.klass, config))
  /\ Len(getClassRules(pure.klass, config).items) = 2
  /\ pure.ret = Arr(<<getClassRules(pure.klass, config).items[2]>>)

(***************************************************************************)
(* C20: of two overlapping runs with different configurations and batches, *)
(* each builds and sends only classes enabled by its own configuration,    *)
(* each with its own batch, the accounts the store returned for its own    *)
(* batch and the groups it fetched itself, and a run that has resolved has *)
(* sent each of its own enabled classes once; a step of one run leaves the *)
(* other's locals as they were.                                            *)
(***************************************************************************)
\* what the store returned to run r, once it has
ReturnedTo(r, api) ==
  LET o == SelectSeq(r.outcomes, LAMBDA x : x.api = api /\ x.outcome = "resolved")
  IN IF o = <<>> THEN <<>> ELSE o[1].value

SentBy(r, Klass) ==
  Cardinality({i \in 1..Len(r.calls) :
                 r.calls[i].api = "sendNotification" /\ r.calls[i].klass = Klass})

KeepsToItself(r) ==
  /\ \A i \in 1..Len(r.calls) :
        r.calls[i].api \in {"new Klass", "sendNotification"} =>
          /\ r.calls[i].klass \in EnabledClasses(r.config)
          /\ r.calls[i].options.data.transactions = r.transactions
          /\ r.calls[i].options.data.accounts = ReturnedTo(r, "BankAccount.getAll")
          /\ r.calls[i].options.data.groups = ReturnedTo(r, "client.query")
  /\ \A i \in 1..Len(r.calls) :
        r.calls[i].api = "BankAccount.getAll" =>
          {r.calls[i].ids[j] : j \in 1..Len(r.calls[i].ids)}
            = {r.transactions[j].account : j \in 1..Len(r.transactions)}
  /\ r.pc = "resolved" =>
        \A K \in Classes :
           SentBy(r, K) = (IF K \in EnabledClasses(r.config) THEN 1 ELSE 0)

C20_RunsIsolated ==
  /\ [](other.turn # 0 => KeepsToItself(ThisRun) /\ KeepsToItself(other.run))
  /\ [][other'.turn = other.turn => other'.run = other.run]_vars

\* both runs have a send pending at once, each with its own accounts
C20_Witness ==
  /\ other.turn # 0
  /\ pc = "awaitSend"
  /\ other.run.pc = "awaitSend"
  /\ accounts = <<[_id |-> "A1"]>>
  /\ other.run.accounts = <<[_id |-> "A2"]>>
  /\ calls[Len(calls)].options.data.accounts = accounts
  /\ other.run.calls[Len(other.run.calls)].options.data.accounts = other.run.accounts

(***************************************************************************)
(* C21: after any sequence of updateTimeTracking calls highestTime is the  *)
(* maximum of 0 and of every time passed so far, and no step decreases it. *)
(***************************************************************************)
TimesPassed ==
  {timeCalls[i].time :
     i \in {j \in 1..Len(timeCalls) : timeCalls[j].op = "updateTimeTracking"}}

C21_HighestTimeIsMaximum ==
  /\ [](/\ highestTime \in TimesPassed \cup {0}
        /\ \A time \in TimesPassed \cup {0} : highestTime >= time)
  /\ [][highestTime' >= highestTime]_vars

\* a lower time, and a negative one, were passed after the highest
C21_Witness ==
  /\ Len(timeCalls) = 3
  /\ \A i \in 1..3 : timeCalls[i].op = "updateTimeTracking"
  /\ timeCalls[1].time = 2
  /\ timeCalls[2].time = 1
  /\ timeCalls[3].time < 0
  /\ highestTime = 2

(***************************************************************************)
(* C22: canCategorizeNextChunk returns true exactly when the seconds spent *)
(* since the start plus the highest chunk time are strictly below the      *)
(* limit; as the clock only advances and the highest time only grows, once *)
(* it has returned false every later call returns false.                   *)
(***************************************************************************)
BudgetCalls ==
  {i \in 1..Len(timeCalls) : timeCalls[i].op = "canCategorizeNextChunk"}

C22_BudgetCheck ==
  /\ \A i \in BudgetCalls :
        timeCalls[i].ret
          <=> /\ MAX_EXECUTION_TIME.kind = "number"
              /\ timeCalls[i].executionTime + timeCalls[i].highestTime
                   < MAX_EXECUTION_TIME.value
  /\ \A i \in BudgetCalls : \A j \in BudgetCalls :
        (i < j /\ ~timeCalls[i].ret) => ~timeCalls[j].ret

\* true, then false once a chunk time was recorded, and false from then on
C22_Witness ==
  /\ Len(timeCalls) = 3
  /\ timeCalls[1].op = "canCategorizeNextChunk" /\ timeCalls[1].ret
  /\ timeCalls[2].op = "updateTimeTracking"
  /\ timeCalls[3].op = "canCategorizeNextChunk" /\ ~timeCalls[3].ret
  /\ timeCalls[3].executionTime < MAX_EXECUTION_TIME.value

(***************************************************************************)
(* C23, as claimed: every chunk fetchChunksToCategorize returns holds      *)
(* CHUNK_SIZE transactions, the chunks one after the other are the marked  *)
(* transactions from the most recent to the oldest, and every marked       *)
(* transaction is in exactly one chunk.  Refuted by 101 marked             *)
(* transactions: the second chunk holds one.                               *)
(***************************************************************************)
RECURSIVE Flatten(_)
Flatten(cs) == IF cs = <<>> THEN <<>> ELSE Head(cs) \o Flatten(Tail(cs))

\* the chunks are the marked transactions, each once, most recent first
ChunksCoverSorted(cs) ==
  LET all == Flatten(cs) IN
  /\ Len(all) = Len(toCategorize)
  /\ {all[i]._id : i \in 1..Len(all)}
       = {toCategorize[i]._id : i \in 1..Len(toCategorize)}
  /\ \A i \in 1..Len(all) : all[i] = toCategorize[all[i]._id]
  /\ \A i \in 1..(Len(all) - 1) : all[i].date >= all[i + 1].date

AlertsOf(col) ==
  IF col # <<>> /\ "categoryBudgetAlerts" \in DOMAIN col[1]
  THEN col[1].categoryBudgetAlerts
  ELSE <<>>

ErrorsLoggedBy(p) ==
  Cardinality({i \in 1..Len(settingsLog) :
                 settingsLog[i].level = "error" /\ settingsLog[i].by = p})

C24_AlertsNeverReject ==
  \A p \in DOMAIN ops :
     ops[p].op = "fetchCategoryAlerts" =>
       /\ ops[p].pc \in {"idle", "fetching", "resolved"}
       /\ ops[p].pc = "resolved" =>
            IF "failed" \in DOMAIN ops[p]
            THEN ops[p].ret = <<>> /\ ErrorsLoggedBy(p) = 1
            ELSE ops[p].ret = AlertsOf(ops[p].col) /\ ErrorsLoggedBy(p) = 0

\* one call resolved with [] after a failed fetch, another with the alerts
\* of the stored document
C24_Witness ==
  \E p \in DOMAIN ops : \E q \in DOMAIN ops :
     /\ ops[p].op = "fetchCategoryAlerts" /\ ops[q].op = "fetchCategoryAlerts"
     /\ ops[p].pc = "resolved" /\ ops[q].pc = "resolved"
     /\ "failed" \in DOMAIN ops[p]
     /\ ops[p].ret = <<>>
     /\ "failed" \notin DOMAIN ops[q]
     /\ ops[q].ret = <<"a0">>

(***************************************************************************)
(* C25: when updateCategoryAlerts(client, alerts) resolves, the stored     *)
(* settings document has categoryBudgetAlerts equal to alerts and every    *)
(* other field it had keeps the value stored last, also when another       *)
(* update was stored between the fetch and the write of the call.          *)
(* The code refutes it: the call writes back the whole document it         *)
(* fetched, and with it the old values of the fields stored meanwhile.     *)
(***************************************************************************)
C25_NoUpdateLost ==
  [][\A p \in DOMAIN ops :
       (/\ ops[p].op = "updateCategoryAlerts"
        /\ ops[p].pc = "writing"
        /\ ops'[p].pc = "resolved")
         => /\ settingsCol'[1].categoryBudgetAlerts = ops[p].arg
            /\ settingsCol # <<>> =>
                 \A f \in DOMAIN settingsCol[1] \ {"categoryBudgetAlerts"} :
                    settingsCol'[1][f] = settingsCol[1][f]]_vars

(***************************************************************************)
(* C26: for every settings document isNotificationEnabled is truthy        *)
(* exactly when getEnabledNotificationClasses returns a class, whatever    *)
(* the shape of the rules and the class.                                   *)
(* The code refutes it: isNotificationEnabled reads `enabled` of three     *)
(* classes only, of a single mapping only, and asks no isValidRule.        *)
(***************************************************************************)
C26_SameAnswer ==
  (pure.op = "isNotificationEnabled" /\ IsArray(pure.classes)) =>
    (ToBoolean(pure.ret) <=> pure.classes.items # <<>>)

\* the commands of a name among those pushed
PushedNamed(name) == {i \in 1..Len(pushed) : pushed[i].name = name}

TrackerConfiguredOnce ==
  /\ Cardinality(Created) <= 1
  /\ Cardinality(PushedNamed("setTrackerUrl")) <= 1
  /\ Cardinality(PushedNamed("setSiteId")) <= 1

SameTrackerEverywhere ==
  \A i, j \in 1..Len(trackerCalls) :
    trackerCalls[i].tracker = trackerCalls[j].tracker

NamelessEventThrows ==
  \A i \in 1..Len(trackerCalls) :
    LET c == trackerCalls[i] IN
    (/\ c.op = "trackEvent"
     /\ c.tracker.kind = "matomo"
     /\ ~ToBoolean(Get(c.arg, "name")))
      => c.threw # "no" /\ c.sent = <<>>

ShimDoesNothing ==
  \A i \in 1..Len(trackerCalls) :
    LET c == trackerCalls[i] IN
    c.tracker.kind = "shim" =>
      c.threw = "no" /\ c.sent = <<>> /\ c.configured = 0

(***************************************************************************)
(* C27: across any sequence of getTracker, trackEvent, trackPage and       *)
(* TrackerProvider calls the Matomo tracker is created and configured      *)
(* (setTrackerUrl, setSiteId) at most once and every call uses the same    *)
(* tracker object; with a real tracker trackEvent of an event without a    *)
(* name throws and pushes nothing; without one every tracking call is a    *)
(* no-op that does not throw.                                              *)
(* The code refutes the first half: memoize caches by the first argument   *)
(* of the call.                                                            *)
(***************************************************************************)
C27_OneTracker ==
  /\ TrackerConfiguredOnce
  /\ SameTrackerEverywhere
  /\ NamelessEventThrows
  /\ ShimDoesNothing
====
